---- MODULE Spec2Model ----
(***************************************************************************)
(* Posture telemetry host pipeline of exo-pos: the visualizer's tick       *)
(* (update_plot -> read_latest_data, serial mode), its port switch and     *)
(* its log buffer, as a state machine.                                     *)
(*                                                                         *)
(* Floats are modelled as records [k, v]: k = "fin" with v the value in    *)
(* units of 1/Unit degree, or k in {"nan", "pinf", "ninf"} (json.loads     *)
(* accepts NaN, Infinity and -Infinity).  Unit is a power of two large     *)
(* enough that every halving the EMA performs within MaxSamples samples    *)
(* is exact, as it is in binary floating point for these inputs.           *)
(* Python's None is the string "None"; an optional number is <<>> or <<n>>.*)
(***************************************************************************)
EXTENDS Integers, Sequences, FiniteSets, TLC

VARIABLES
    serial_connection,      \* "None" or the port the open Serial object is on
    current_serial_port,    \* "None" or the port last opened
    os_handles,             \* number of transport handles the OS holds open
    in_buffer,              \* lines buffered by the transport, oldest first
    log_messages,           \* deque(maxlen=MAX_LOG_MESSAGES)
    smoothed_pitch,
    smoothed_roll,
    smoothing_initialized,
    current_data,           \* the dict displayed by update_plot
    pc,                     \* "idle" | "drain" | "render": position in a tick
    clock,                  \* time.time(), in seconds
    ev,                     \* the step just taken (history)
    hist,                   \* accepted samples since the last switch (history)
    open_failed,            \* the most recent open attempt failed (history)
    sent,                   \* lines the device has sent (history, bounded)
    samples,                \* samples accepted so far (history, bounded)
    switches,               \* port switches so far (history, bounded)
    at_switch,              \* the filter as the last switch found it (history)
    drain,                  \* lines buffered when the tick began and not taken yet (history)
    drawn,                  \* what update_plot last drew: rotation and forward vector
    monitor                 \* serial_monitor.py: its main loop, CSV log and display

vars == << serial_connection, current_serial_port, os_handles, in_buffer,
           log_messages, smoothed_pitch, smoothed_roll, smoothing_initialized,
           current_data, pc, clock, ev, hist, open_failed, sent, samples,
           switches, at_switch, drain, drawn, monitor >>

----------------------------------------------------------------------------
\* Bounds of the model

MaxSamples == 3
MaxLines == 4
MaxBuffered == 2
MaxSwitches == 2
MaxClock == 3
MaxLogLines == 17
MaxLogSamples == 1
MaxLogSwitches == 1

\* Program constants

MAX_LOG_MESSAGES == 15
AlphaNum == 1
AlphaDen == 2
DefaultThresholdDeg == 15
CalibrationShowSeconds == 2

SERIAL_PORT == "portA"
Ports == {"portA", "portB"}

----------------------------------------------------------------------------
\* Floats

RECURSIVE Pow2(_)
Pow2(n) == IF n = 0 THEN 1 ELSE 2 * Pow2(n - 1)

Unit == Pow2(MaxSamples)

Deg(d) == [k |-> "fin", v |-> d * Unit]
NaN == [k |-> "nan", v |-> 0]
PInf == [k |-> "pinf", v |-> 0]
NInf == [k |-> "ninf", v |-> 0]

IsFinite(x) == x.k = "fin"

\* A JSON value that is no number (null, a string) where a number is meant
NonNumber == [k |-> "null", v |-> 0]
IsNumber(x) == x.k # "null"

\* x * c for a positive finite constant c = num/den
FScale(num, den, x) ==
    IF x.k = "fin" THEN [k |-> "fin", v |-> (num * x.v) \div den] ELSE x

\* IEEE addition
FAdd(x, y) ==
    CASE x.k = "nan" \/ y.k = "nan" -> NaN
      [] x.k = "fin" /\ y.k = "fin" -> [k |-> "fin", v |-> x.v + y.v]
      [] x.k = "fin" -> y
      [] y.k = "fin" -> x
      [] x.k = y.k -> x
      [] OTHER -> NaN

\* IEEE x >= y (false when either side is NaN)
FGe(x, y) ==
    CASE x.k = "nan" \/ y.k = "nan" -> FALSE
      [] x.k = "fin" /\ y.k = "fin" -> x.v >= y.v
      [] x.k = "pinf" -> TRUE
      [] y.k = "ninf" -> TRUE
      [] OTHER -> FALSE

\* A faulty EMA: the weight of the new sample taken as 1
EMA_no_history(new, old) == new

\* smoothed = SMOOTHING_ALPHA * new + (1 - SMOOTHING_ALPHA) * old
EMA(new, old) ==
    FAdd(FScale(AlphaNum, AlphaDen, new), FScale(AlphaDen - AlphaNum, AlphaDen, old))

----------------------------------------------------------------------------
\* Python dicts: functions with a domain of key names

Has(d, key) == key \in DOMAIN d
Get(d, key, default) == IF key \in DOMAIN d THEN d[key] ELSE default
Update(d, e) ==
    [key \in (DOMAIN d) \cup (DOMAIN e) |-> IF key \in DOMAIN e THEN e[key] ELSE d[key]]
Put(d, key, val) ==
    [k2 \in (DOMAIN d) \cup {key} |-> IF k2 = key THEN val ELSE d[k2]]

EmptyDict == [key \in {} |-> 0]

----------------------------------------------------------------------------
\* Lines as the transport returns them.  kind is what decoding and parsing
\* make of the bytes:
\*   "badutf8"  bytes that are not valid UTF-8
\*   "blank"    nothing but whitespace
\*   "text"     text that is not JSON (free text, truncated JSON)
\*   "scalar"   a JSON number, true, false or null
\*   "string"   a JSON string or array; words are the key names k for which
\*              Python's `k in data` is true
\*   "object"   a JSON object, obj

NoLine == [kind |-> "none", obj |-> EmptyDict, words |-> {}]
BadUtf8Line == [kind |-> "badutf8", obj |-> EmptyDict, words |-> {}]
BlankLine == [kind |-> "blank", obj |-> EmptyDict, words |-> {}]
TextLine == [kind |-> "text", obj |-> EmptyDict, words |-> {}]
ScalarLine == [kind |-> "scalar", obj |-> EmptyDict, words |-> {}]
StringLine(words) == [kind |-> "string", obj |-> EmptyDict, words |-> words]
ObjectLine(obj) == [kind |-> "object", obj |-> obj, words |-> {}]

\* `key in data` for parsed JSON that is not a scalar
Contains(line, key) ==
    IF line.kind = "object" THEN Has(line.obj, key) ELSE key \in line.words

\* A JSON object with pitch and roll and no status: a posture sample
IsSample(line) ==
    /\ line.kind = "object"
    /\ Has(line.obj, "pitch") /\ Has(line.obj, "roll")
    /\ ~Has(line.obj, "status")

----------------------------------------------------------------------------
\* add_log_message: the message appended, if any, or the exception raised

LogRaw == [raised |-> FALSE, msgs |-> << [tag |-> "RAW", body |-> "line"] >>]
LogNone == [raised |-> FALSE, msgs |-> << >>]
LogRaise == [raised |-> TRUE, msgs |-> << >>]

add_log_message(line) ==
    CASE line.kind = "text" -> LogRaw
      [] line.kind = "scalar" -> LogRaise
      [] line.kind = "string" ->
            IF line.words \cap {"status", "debug", "error"} # {} THEN LogRaise
            ELSE IF {"pitch", "roll"} \subseteq line.words THEN LogNone
            ELSE LogRaw
      [] line.kind = "object" ->
            IF Has(line.obj, "status")
              THEN [raised |-> FALSE,
                    msgs |-> << [tag |-> "STATUS", body |-> line.obj["status"]] >>]
            ELSE IF Has(line.obj, "debug")
              THEN [raised |-> FALSE, msgs |-> << [tag |-> "DEBUG", body |-> line.obj["debug"]] >>]
            ELSE IF Has(line.obj, "error")
              THEN [raised |-> FALSE, msgs |-> << [tag |-> "ERROR", body |-> line.obj["error"]] >>]
            ELSE IF Has(line.obj, "pitch") /\ Has(line.obj, "roll") THEN LogNone
            ELSE LogRaw

\* A faulty LogAppend: a full log turns the new message away
LogAppend_keeps_oldest(log, msgs) ==
    LET all == log \o msgs
    IN IF Len(all) > MAX_LOG_MESSAGES THEN SubSeq(all, 1, MAX_LOG_MESSAGES) ELSE all

\* deque(maxlen=MAX_LOG_MESSAGES).append for each message of msgs
LogAppend(log, msgs) ==
    LET all == log \o msgs
    IN IF Len(all) > MAX_LOG_MESSAGES
         THEN SubSeq(all, Len(all) - MAX_LOG_MESSAGES + 1, Len(all))
         ELSE all

----------------------------------------------------------------------------
\* read_latest_data, serial mode: the body of the read loop for one line.
\* The result names what the loop does next:
\*   "undecodable"  UnicodeDecodeError, caught in the loop: next line
\*   "blank"        empty after strip(): next line
\*   "not_json"     json.JSONDecodeError, caught in the loop: next line
\*   "status"       a line with a status key: next line
\*   "sample"       a posture sample, filtered and stored: next line
\*   "ignored"      parsed, neither status nor sample: next line
\*   "raised"       another exception (TypeError, AttributeError): it leaves
\*                  the loop and is caught by the handler around it

Unchanged(res, log) ==
    [res |-> res, log |-> log, cd |-> current_data,
     sp |-> smoothed_pitch, sr |-> smoothed_roll, si |-> smoothing_initialized,
     acc |-> << >>]

\* Lines 312-323: calibration messages
StatusLine(obj, log) ==
    LET status == Get(obj, "status", "")
        cd == CASE status = "calibrating" ->
                     Put(Put(current_data, "calibration_status", "calibrating"),
                         "calibration_countdown",
                         IF Has(obj, "countdown_s") THEN << obj["countdown_s"] >> ELSE << >>)
                [] status = "calibrated" ->
                     Put(Put(Put(current_data, "calibration_status", "calibrated"),
                             "calibration_countdown", << >>),
                         "calibration_complete_time", << clock >>)
                [] OTHER -> current_data
    IN [Unchanged("status", log) EXCEPT !.cd = cd]

\* Lines 328-329: the first sample after calibration clears the status
ClearCalibrated(cd) ==
    IF cd["calibration_status"] = "calibrated"
      THEN Put(cd, "calibration_status", "None")
      ELSE cd

\* A faulty StoreSample: the host classifies the smoothed pitch itself
StoreSample_classified(cd, data) ==
    Update(cd, Put(data, "forward_slouch", FGe(data["pitch"], cd["threshold"])))

\* A faulty StoreSample: the host zeroes the duration when not slouching
StoreSample_sawtooth(cd, data) ==
    LET merged == Update(cd, data)
    IN IF FGe(merged["pitch"], merged["threshold"]) THEN merged
       ELSE Put(merged, "cumulative_slouch_s", 0)

\* A faulty StoreSample: the threshold of the session is kept
StoreSample_threshold_kept(cd, data) ==
    Put(Update(cd, data), "threshold", cd["threshold"])

\* Line 344: current_data.update(data)
StoreSample(cd, data) == Update(cd, data)

\* Lines 326-344: a posture sample.  The first sample is stored whatever
\* its values are; from then on the weighted mean of line 338 (339) raises
\* TypeError when the new or the stored pitch (roll) is no number, after
\* lines 328-329 and, for the roll, after smoothed_pitch was assigned.
SampleLine(obj, log) ==
    LET sp == IF ~smoothing_initialized THEN obj["pitch"]
              ELSE EMA(obj["pitch"], smoothed_pitch)
        sr == IF ~smoothing_initialized THEN obj["roll"]
              ELSE EMA(obj["roll"], smoothed_roll)
        data == Put(Put(obj, "pitch", sp), "roll", sr)
        cd == StoreSample(ClearCalibrated(current_data), data)
        pitch_raises == /\ smoothing_initialized
                        /\ ~(IsNumber(obj["pitch"]) /\ IsNumber(smoothed_pitch))
        roll_raises == /\ smoothing_initialized
                       /\ ~(IsNumber(obj["roll"]) /\ IsNumber(smoothed_roll))
    IN IF pitch_raises
         THEN [Unchanged("raised", log) EXCEPT !.cd = ClearCalibrated(current_data)]
       ELSE IF roll_raises
         THEN [Unchanged("raised", log) EXCEPT !.cd = ClearCalibrated(current_data),
                                               !.sp = sp]
       ELSE [res |-> "sample", log |-> log, cd |-> cd,
             sp |-> sp, sr |-> sr, si |-> TRUE,
             acc |-> << [raw_pitch |-> obj["pitch"], raw_roll |-> obj["roll"],
                         out_pitch |-> sp, out_roll |-> sr,
                         cumulative |-> cd["cumulative_slouch_s"]] >>]

\* Lines 294-346
ProcessLine(line) ==
    IF line.kind = "badutf8" THEN Unchanged("undecodable", log_messages)
    ELSE IF line.kind = "blank" THEN Unchanged("blank", log_messages)
    ELSE
      LET logged == add_log_message(line)
          log == LogAppend(log_messages, logged.msgs)
      IN IF logged.raised THEN Unchanged("raised", log_messages)
         ELSE IF line.kind = "text" THEN Unchanged("not_json", log)
         ELSE IF Contains(line, "status") THEN StatusLine(line.obj, log)
         ELSE IF Contains(line, "pitch") /\ Contains(line, "roll")
           THEN IF line.kind = "object" THEN SampleLine(line.obj, log)
                \* data['pitch'] on a string or a list raises TypeError, after
                \* the calibration status was cleared
                ELSE [Unchanged("raised", log)
                        EXCEPT !.cd = ClearCalibrated(current_data)]
         ELSE Unchanged("ignored", log)

----------------------------------------------------------------------------
\* The state after the module is loaded (lines 113-137, 167-170)

Event(op, line, res) == [op |-> op, line |-> line, res |-> res, close |-> "none"]

Init ==
    /\ serial_connection = "None"
    /\ current_serial_port = "None"
    /\ os_handles = 0
    /\ in_buffer = << >>
    /\ log_messages = << >>
    /\ smoothed_pitch = Deg(0)
    /\ smoothed_roll = Deg(0)
    /\ smoothing_initialized = FALSE
    /\ current_data =
          [pitch |-> Deg(0), roll |-> Deg(0), pitch_raw |-> Deg(0),
           forward_slouch |-> FALSE, alert_level_name |-> "none",
           cumulative_slouch_s |-> 0, threshold |-> Deg(DefaultThresholdDeg),
           calibration_status |-> "None", calibration_countdown |-> << >>,
           calibration_complete_time |-> << >>]
    /\ pc = "idle"
    /\ clock = 1
    /\ ev = Event("init", NoLine, "none")
    /\ hist = << >>
    /\ open_failed = FALSE
    /\ sent = 0
    /\ samples = 0
    /\ switches = 0
    /\ at_switch = [initialized |-> FALSE, pitch |-> Deg(0), roll |-> Deg(0),
                    opened |-> FALSE]
    /\ drain = 0
    /\ drawn = << >>
    /\ monitor = [pc |-> "start", csv |-> << >>, shown |-> {}]

----------------------------------------------------------------------------
\* The environment: the device sends a line, time passes

DeviceSend(Lines) ==
    /\ serial_connection # "None"
    /\ Len(in_buffer) < MaxBuffered
    /\ sent < MaxLines
    /\ \E line \in Lines :
          /\ IsSample(line) => samples < MaxSamples
          /\ in_buffer' = Append(in_buffer, line)
          /\ samples' = IF IsSample(line) THEN samples + 1 ELSE samples
    /\ sent' = sent + 1
    /\ UNCHANGED << serial_connection, current_serial_port, os_handles,
                    log_messages, smoothed_pitch, smoothed_roll,
                    smoothing_initialized, current_data, pc, clock, ev, hist,
                    open_failed, switches, at_switch, drain, drawn, monitor >>

TimePasses ==
    /\ pc = "idle"
    /\ clock < MaxClock
    /\ clock' = clock + 1
    /\ UNCHANGED << serial_connection, current_serial_port, os_handles,
                    in_buffer, log_messages, smoothed_pitch, smoothed_roll,
                    smoothing_initialized, current_data, pc, ev, hist,
                    open_failed, sent, samples, switches, at_switch, drain, drawn, monitor >>

----------------------------------------------------------------------------
\* update_plot: read_latest_data (line 514), then the drawing (lines 516-702)

\* Lines 284-289, the connection is there: on to the read loop
TickConnected ==
    /\ pc = "idle"
    /\ serial_connection # "None"
    /\ pc' = "drain"
    /\ drain' = Len(in_buffer)
    /\ ev' = Event("tick", NoLine, "connected")
    /\ UNCHANGED << serial_connection, current_serial_port, os_handles,
                    in_buffer, log_messages, smoothed_pitch, smoothed_roll,
                    smoothing_initialized, current_data, clock, hist,
                    open_failed, sent, samples, switches, at_switch, drawn, monitor >>

\* Lines 284-289, serial_connection is None and SERIAL_PORT opens
TickOpenOk ==
    /\ pc = "idle"
    /\ serial_connection = "None"
    /\ serial_connection' = SERIAL_PORT
    /\ current_serial_port' = SERIAL_PORT
    /\ os_handles' = os_handles + 1
    /\ in_buffer' = << >>
    /\ open_failed' = FALSE
    /\ pc' = "drain"
    /\ drain' = 0
    /\ ev' = Event("tick", NoLine, "opened")
    /\ UNCHANGED << log_messages, smoothed_pitch, smoothed_roll,
                    smoothing_initialized, current_data, clock, hist, sent,
                    samples, switches, at_switch, drawn, monitor >>

\* Lines 284-285 and 348-349, serial_connection is None and the open raises:
\* the handler prints the error and read_latest_data returns
TickOpenFails ==
    /\ pc = "idle"
    /\ serial_connection = "None"
    /\ open_failed' = TRUE
    /\ pc' = "render"
    /\ ev' = Event("tick", NoLine, "open_failed")
    /\ UNCHANGED << serial_connection, current_serial_port, os_handles,
                    in_buffer, log_messages, smoothed_pitch, smoothed_roll,
                    smoothing_initialized, current_data, clock, hist, sent,
                    samples, switches, at_switch, drain, drawn, monitor >>

\* drain, once the loop has taken a line that arrived after the tick began
TakenLate == 0 - 1

\* Lines 292-346: one pass of the read loop
ReadLine ==
    /\ pc = "drain"
    /\ in_buffer # << >>
    /\ LET line == Head(in_buffer)
           out == ProcessLine(line)
       IN /\ in_buffer' = Tail(in_buffer)
          /\ log_messages' = out.log
          /\ current_data' = out.cd
          /\ smoothed_pitch' = out.sp
          /\ smoothed_roll' = out.sr
          /\ smoothing_initialized' = out.si
          /\ hist' = hist \o out.acc
          /\ pc' = IF out.res = "raised" THEN "render" ELSE "drain"
          /\ ev' = Event("line", line, out.res)
          /\ drain' = CASE out.res = "raised" -> 0
                      [] drain > 0 -> drain - 1
                      [] OTHER -> TakenLate
    /\ UNCHANGED << serial_connection, current_serial_port, os_handles, clock,
                    open_failed, sent, samples, switches, at_switch, drawn, monitor >>

\* Line 292: in_waiting is 0, the loop ends
DrainDone ==
    /\ pc = "drain"
    /\ in_buffer = << >>
    /\ pc' = "render"
    /\ drain' = 0
    /\ ev' = Event("drained", NoLine, "none")
    /\ UNCHANGED << serial_connection, current_serial_port, os_handles,
                    in_buffer, log_messages, smoothed_pitch, smoothed_roll,
                    smoothing_initialized, current_data, clock, hist,
                    open_failed, sent, samples, switches, at_switch, drawn, monitor >>

\* Lines 292, 294 and 348-349: in_waiting or readline() raises
\* (serial.SerialException); the handler prints and read_latest_data returns
ReadFails ==
    /\ pc = "drain"
    /\ pc' = "render"
    /\ drain' = 0
    /\ ev' = Event("read_error", NoLine, "none")
    /\ UNCHANGED << serial_connection, current_serial_port, os_handles,
                    in_buffer, log_messages, smoothed_pitch, smoothed_roll,
                    smoothing_initialized, current_data, clock, hist,
                    open_failed, sent, samples, switches, at_switch, drawn, monitor >>

\* A faulty CalibrationShown: the overlay is never shown
CalibrationShown_never(complete_time, now) == FALSE

\* Line 637: complete_time and (time.time() - complete_time < 2.0)
CalibrationShown(complete_time, now) ==
    /\ complete_time # << >>
    /\ complete_time[1] # 0
    /\ now - complete_time[1] < CalibrationShowSeconds

\* Lines 516-702: the drawing; it changes only the calibration status
\* (lines 626-645), cleared 2 seconds after calibration completed
Render ==
    /\ pc = "render"
    /\ current_data' =
          IF /\ current_data["calibration_status"] = "calibrated"
             /\ ~CalibrationShown(current_data["calibration_complete_time"], clock)
            THEN Put(current_data, "calibration_status", "None")
            ELSE current_data
    /\ pc' = "idle"
    /\ ev' = Event("render", NoLine, "none")
    /\ UNCHANGED << serial_connection, current_serial_port, os_handles,
                    in_buffer, log_messages, smoothed_pitch, smoothed_roll,
                    smoothing_initialized, clock, hist, open_failed, sent,
                    samples, switches, at_switch, drain, drawn, monitor >>

----------------------------------------------------------------------------
\* switch_serial_port (lines 139-165), the callback of a port button.  It
\* runs on the GUI event loop, as the timer's update_plot does: between ticks.
\* A close() that raises has still given the descriptor back to the OS; the
\* bare except swallows the error.

\* A faulty CloseOld: the old connection is dropped without close()
CloseOld_skipped(handles) == handles

\* Lines 144-150: serial_connection.close(); serial_connection = None
CloseOld(handles) == handles - 1

\* A faulty ResetFilter: the switch keeps the filter's flag
ResetFilter_kept(initialized) == initialized

\* Line 154: smoothing_initialized = False
ResetFilter(initialized) == FALSE

\* A faulty SwitchKeeps: the switch puts the display back to its first values
SwitchKeeps_reset(cd) ==
    [key \in DOMAIN cd |->
        CASE key \in {"pitch", "roll", "pitch_raw"} -> Deg(0)
          [] key = "calibration_status" -> "None"
          [] OTHER -> cd[key]]

\* Lines 139-165 never assign current_data (it is not among the globals of
\* line 141 and no item of it is written)
SwitchKeeps(cd) == cd

switch_serial_port(new_port, close_raises, open_ok) ==
    /\ pc = "idle"
    /\ switches < MaxSwitches
    /\ close_raises => serial_connection # "None"
    /\ LET closed == IF serial_connection # "None"
                       THEN CloseOld(os_handles) ELSE os_handles
           how == IF serial_connection = "None" THEN "none"
                  ELSE IF close_raises THEN "error" ELSE "ok"
       IN /\ smoothing_initialized' = ResetFilter(smoothing_initialized)
          /\ in_buffer' = << >>
          /\ IF open_ok
               THEN /\ serial_connection' = new_port
                    /\ current_serial_port' = new_port
                    /\ os_handles' = closed + 1
                    /\ log_messages' =
                          LogAppend(<< >>, << [tag |-> "STATUS", body |-> "Connected"] >>)
               ELSE /\ serial_connection' = "None"
                    /\ current_serial_port' = current_serial_port
                    /\ os_handles' = closed
                    /\ log_messages' =
                          LogAppend(<< >>, << [tag |-> "ERROR", body |-> "Failed to connect"] >>)
          /\ open_failed' = ~open_ok
          /\ ev' = [Event("switch", NoLine, IF open_ok THEN "opened" ELSE "open_failed")
                      EXCEPT !.close = how]
    /\ hist' = << >>
    /\ switches' = switches + 1
    /\ at_switch' = [initialized |-> smoothing_initialized,
                     pitch |-> smoothed_pitch, roll |-> smoothed_roll,
                     opened |-> open_ok]
    /\ current_data' = SwitchKeeps(current_data)
    /\ UNCHANGED << smoothed_pitch, smoothed_roll, pc, clock,
                    sent, samples, drain, drawn, monitor >>

----------------------------------------------------------------------------
\* Lines the device sends

SampleOf(p, r) == ObjectLine([pitch |-> p, roll |-> r])

FilterLines ==
    { SampleOf(Deg(0), Deg(0)), SampleOf(Deg(20), Deg(10)),
      SampleOf(NaN, Deg(0)), SampleOf(PInf, Deg(0)), SampleOf(NInf, Deg(0)) }

FullSample(p, slouch, cumulative) ==
    ObjectLine([pitch |-> Deg(p), roll |-> Deg(0), pitch_raw |-> Deg(p + 2),
                forward_slouch |-> slouch, cumulative_slouch_s |-> cumulative])

PostureLines ==
    { SampleOf(Deg(0), Deg(0)), SampleOf(Deg(20), Deg(0)),
      FullSample(20, TRUE, 5), FullSample(20, TRUE, 0),
      FullSample(0, FALSE, 0), FullSample(0, TRUE, 5) }

DecodeLines ==
    { BadUtf8Line, BlankLine, TextLine, ScalarLine,
      StringLine({}), StringLine({"status"}), StringLine({"pitch", "roll"}),
      ObjectLine([status |-> "calibrating", countdown_s |-> 3]),
      ObjectLine([status |-> "calibrated", pitch_offset |-> Deg(1), roll_offset |-> Deg(0)]),
      ObjectLine([status |-> "initialized"]),
      ObjectLine([debug |-> "text"]),
      ObjectLine([pitch |-> Deg(5)]),
      SampleOf(Deg(20), Deg(0)) }

CalibrationLines ==
    { TextLine,
      ObjectLine([status |-> "calibrating", countdown_s |-> 3]),
      ObjectLine([status |-> "calibrated", pitch_offset |-> Deg(1), roll_offset |-> Deg(0)]),
      ObjectLine([status |-> "initialized"]),
      StringLine({"pitch", "roll"}),
      SampleOf(Deg(20), Deg(0)) }

ConnLines == { TextLine, SampleOf(Deg(20), Deg(0)) }

----------------------------------------------------------------------------
\* Specifications: the same program, fed each family of lines

Switch == \E new_port \in Ports, close_raises \in BOOLEAN, open_ok \in BOOLEAN :
              switch_serial_port(new_port, close_raises, open_ok)

Tick == TickConnected \/ TickOpenOk \/ TickOpenFails \/ ReadLine \/ DrainDone
           \/ ReadFails \/ Render

Next == DeviceSend(ConnLines) \/ Tick \/ Switch
Spec == Init /\ [][Next]_vars

NextFilter == DeviceSend(FilterLines) \/ Tick \/ Switch
SpecFilter == Init /\ [][NextFilter]_vars

NextPosture == DeviceSend(PostureLines) \/ Tick \/ Switch
SpecPosture == Init /\ [][NextPosture]_vars

NextDecode == DeviceSend(DecodeLines) \/ Tick
SpecDecode == Init /\ [][NextDecode]_vars

NextCalibration == DeviceSend(CalibrationLines) \/ TimePasses \/ Tick
SpecCalibration == Init /\ [][NextCalibration]_vars

----------------------------------------------------------------------------
\* Steps, as the properties below name them

\* The read loop takes the line at the head of the buffer
ReadStep == /\ pc = "drain"
            /\ in_buffer # << >>
            /\ in_buffer' = Tail(in_buffer)

\* The line a ReadStep takes
NextLine == Head(in_buffer)

RenderStep == pc = "render" /\ pc' = "idle"

Threshold == current_data["threshold"]

FiniteSample(h) == IsFinite(h.raw_pitch) /\ IsFinite(h.raw_roll)

\* alpha * raw + (1 - alpha) * prev = out, over finite values
IsWeightedMean(out, raw, prev) ==
    /\ IsFinite(out)
    /\ AlphaDen * out.v = AlphaNum * raw.v + (AlphaDen - AlphaNum) * prev.v

----------------------------------------------------------------------------
\* C1: over the finite samples accepted since the last reset, the filter's
\* output for the first equals the raw sample, and for every later one it is
\* alpha * raw[i] + (1 - alpha) * output[i-1], for pitch and for roll alike;
\* the filter state and the displayed angles are the last output.
C1_EmaRecurrence ==
    (hist # << >> /\ \A i \in 1..Len(hist) : FiniteSample(hist[i])) =>
        /\ hist[1].out_pitch = hist[1].raw_pitch
        /\ hist[1].out_roll = hist[1].raw_roll
        /\ \A i \in 2..Len(hist) :
              /\ IsWeightedMean(hist[i].out_pitch, hist[i].raw_pitch, hist[i-1].out_pitch)
              /\ IsWeightedMean(hist[i].out_roll, hist[i].raw_roll, hist[i-1].out_roll)
        /\ smoothed_pitch = hist[Len(hist)].out_pitch
        /\ smoothed_roll = hist[Len(hist)].out_roll
        /\ current_data["pitch"] = smoothed_pitch
        /\ current_data["roll"] = smoothed_roll

\* Three finite samples in a row, the later two visibly smoothed
C1_Witness ==
    /\ Len(hist) = 3
    /\ \A i \in 1..3 : FiniteSample(hist[i])
    /\ hist[2].out_pitch # hist[2].raw_pitch
    /\ hist[3].out_pitch # hist[3].raw_pitch
    /\ hist[3].out_pitch # hist[2].out_pitch
    /\ hist[3].out_roll # hist[3].raw_roll

\* C2: after a port switch, whether or not the new port opened, the first
\* sample accepted is output unmodified, whatever was filtered before.
C2_ColdStartAfterSwitch ==
    (switches > 0 /\ Len(hist) = 1) =>
        /\ smoothed_pitch = hist[1].raw_pitch
        /\ smoothed_roll = hist[1].raw_roll
        /\ current_data["pitch"] = hist[1].raw_pitch
        /\ current_data["roll"] = hist[1].raw_roll

\* The switch found a running filter whose state differs from the new sample,
\* and the new port did not open: the sample came over the reopened
\* SERIAL_PORT
C2_Witness ==
    /\ switches > 0
    /\ Len(hist) = 1
    /\ at_switch.initialized
    /\ ~at_switch.opened
    /\ at_switch.pitch # hist[1].raw_pitch
    /\ at_switch.roll # hist[1].raw_roll
    /\ IsFinite(at_switch.pitch) /\ IsFinite(hist[1].raw_pitch)
    /\ ev.op = "line" /\ ev.res = "sample"

\* C3: decoding is total.  Whatever line the read loop takes, no error leaves
\* the handling of the line, the loop goes on to the next line, and a line
\* that is not blank, not a calibration status object and not an object with
\* pitch and roll adds a diagnostic to the log.
C3_DecodeTotal ==
    [][ReadStep =>
          /\ ev'.res # "raised"
          /\ pc' = "drain"
          /\ (/\ NextLine.kind # "blank"
              /\ ~(/\ NextLine.kind = "object"
                   /\ Has(NextLine.obj, "status")
                   /\ NextLine.obj["status"] \in {"calibrating", "calibrated"})
              /\ ~(/\ NextLine.kind = "object"
                   /\ Has(NextLine.obj, "pitch") /\ Has(NextLine.obj, "roll")))
             => Len(log_messages') = Len(log_messages) + 1]_vars

CalibrationStatus == current_data["calibration_status"]

ReadsStatus(status) ==
    /\ ReadStep
    /\ NextLine.kind = "object"
    /\ Has(NextLine.obj, "status")
    /\ NextLine.obj["status"] = status

\* C4 as claimed: once calibrated, the calibration state stays calibrated
\* through every line and tick until a 'calibrating' status line is read.
C4_CalibratedUntilCalibrating ==
    [][(CalibrationStatus = "calibrated" /\ ~ReadsStatus("calibrating"))
          => CalibrationStatus' = "calibrated"]_vars

\* C4 as amended: a 'calibrated' status line sets the status to calibrated,
\* with the countdown cleared and the completion time stored; the status then
\* stays calibrated until a 'calibrating' status line is read, or a line whose
\* JSON holds both pitch and roll is read, or a redraw finds the completion
\* 2 seconds old or older: each of the latter two clears it.
C4_CalibratedUntilSampleOrTimeout ==
    [][/\ ReadsStatus("calibrated") =>
            /\ CalibrationStatus' = "calibrated"
            /\ current_data'["calibration_countdown"] = << >>
            /\ current_data'["calibration_complete_time"] = << clock >>
       /\ (CalibrationStatus = "calibrated" /\ CalibrationStatus' # "calibrated") =>
            \/ ReadsStatus("calibrating") /\ CalibrationStatus' = "calibrating"
            \/ /\ ReadStep
               /\ Contains(NextLine, "pitch") /\ Contains(NextLine, "roll")
               /\ CalibrationStatus' = "None"
            \/ /\ RenderStep
               /\ clock - current_data["calibration_complete_time"][1]
                     >= CalibrationShowSeconds
               /\ CalibrationStatus' = "None"
       /\ (RenderStep /\ CalibrationStatus = "calibrated"
             /\ clock - current_data["calibration_complete_time"][1]
                   >= CalibrationShowSeconds)
            => CalibrationStatus' = "None"]_vars

\* Calibration completed after a countdown, and the status outlived a redraw
\* and a diagnostic line
C4_Witness ==
    /\ CalibrationStatus = "calibrated"
    /\ ev.op = "line" /\ ev.res = "not_json"
    /\ clock - current_data["calibration_complete_time"][1] = 1

\* C5: at most one transport handle is open at any time, and it is the one
\* serial_connection refers to; a switch closes the old one before it opens
\* the new one, also when close() raises.
C5_OneHandle ==
    /\ os_handles <= 1
    /\ (os_handles = 1) <=> (serial_connection # "None")

\* A switch whose close() raised has opened the new port
C5_Witness ==
    /\ ev.op = "switch"
    /\ ev.close = "error"
    /\ ev.res = "opened"
    /\ serial_connection = "portB"
    /\ os_handles = 1

\* C6: after an open has failed, no tick attempts an open; only a switch
\* requested by the operator opens a transport again.
C6_NoRetryByTick ==
    [][open_failed => ~(pc = "idle" /\ ev'.op = "tick"
                          /\ ev'.res \in {"opened", "open_failed"})]_vars

AcceptStep == ReadStep /\ IsSample(NextLine)

\* The slouch predicate of the displayed state: pitch >= threshold
Slouching(cd) == FGe(cd["pitch"], cd["threshold"])

NonFinite(line) ==
    ~IsFinite(line.obj["pitch"]) \/ ~IsFinite(line.obj["roll"])

\* C9: a sample whose pitch or roll is NaN or infinite is dropped, the filter
\* and the posture state keeping their values, and every finite sample, also
\* a later one, gives finite smoothed values.
C9_NonFiniteDropped ==
    [][AcceptStep =>
          IF NonFinite(NextLine)
            THEN UNCHANGED << smoothed_pitch, smoothed_roll,
                              smoothing_initialized, current_data, drain, drawn, monitor >>
            ELSE IsFinite(smoothed_pitch') /\ IsFinite(smoothed_roll')]_vars

\* diagnose_orientation.py, line 84: data.get('pitch_raw', 0.0)
DiagnosePitchRaw(data) == Get(data, "pitch_raw", Deg(0))

\* C10: an accepted sample without a pitch_raw field has its own pitch as
\* its pitch_raw.
C10_PitchRawDefaultsToPitch ==
    (ev.op = "line" /\ ev.res = "sample" /\ ~Has(ev.line.obj, "pitch_raw")) =>
        /\ current_data["pitch_raw"] = ev.line.obj["pitch"]
        /\ DiagnosePitchRaw(ev.line.obj) = ev.line.obj["pitch"]

----------------------------------------------------------------------------
\* serial_monitor.py: the terminal monitor.  It reads the device directly,
\* one blocking readline per turn of its loop, prints each frame and appends
\* posture data to a CSV file.  monitor.pc is "start" before the port is
\* open, "running" inside the loop, "exited" after sys.exit and "crashed"
\* after an exception no handler of main catches.

\* IEEE x < y (false when either side is NaN)
FLt(x, y) ==
    CASE x.k = "nan" \/ y.k = "nan" -> FALSE
      [] x.k = "fin" /\ y.k = "fin" -> x.v < y.v
      [] x.k = "ninf" -> y.k # "ninf"
      [] y.k = "pinf" -> x.k # "pinf"
      [] OTHER -> FALSE

\* int(max(0, min(20, pitch))): Python's min and max keep their first
\* argument unless a later one compares smaller (larger)
BarLength(pitch) ==
    LET low == IF FLt(pitch, Deg(20)) THEN pitch ELSE Deg(20)
        high == IF FLt(Deg(0), low) THEN low ELSE Deg(0)
    IN  high.v \div Unit

\* A faulty posture bar: a pitch exactly at the threshold still counts as OK
display_posture_bar_late(pitch, threshold) ==
    [ status |-> CASE FLt(pitch, FAdd(threshold, Deg(-2))) -> "GOOD"
                   [] ~FLt(threshold, pitch) -> "OK"
                   [] FLt(pitch, FAdd(threshold, Deg(10))) -> "SLOUCH"
                   [] OTHER -> "BAD",
      length |-> BarLength(pitch) ]

display_posture_bar(pitch, threshold) ==
    [ status |-> CASE FLt(pitch, FAdd(threshold, Deg(-2))) -> "GOOD"
                   [] FLt(pitch, threshold) -> "OK"
                   [] FLt(pitch, FAdd(threshold, Deg(10))) -> "SLOUCH"
                   [] OTHER -> "BAD",
      length |-> BarLength(pitch) ]

DisplayNothing == [raised |-> FALSE, shown |-> {}]
DisplayRaise == [raised |-> TRUE, shown |-> {}]

\* display_data(data) for the value json.loads returned.  raised: an
\* exception left the function (TypeError for `'status' in 5` and for
\* "..."['status'], AttributeError for "...".get, ValueError for the format
\* code .2f applied to the default 'N/A').
display_data(line) ==
    CASE line.kind = "scalar" -> DisplayRaise
      [] line.kind = "string" ->
            IF "status" \in line.words THEN DisplayRaise
            ELSE IF "pitch" \notin line.words THEN DisplayNothing
            ELSE DisplayRaise
      [] OTHER ->
            LET data == line.obj IN
            IF Has(data, "status")
            THEN IF /\ data["status"] = "calibrated"
                    /\ ~(Has(data, "pitch_offset") /\ Has(data, "roll_offset"))
                 THEN DisplayRaise
                 ELSE DisplayNothing
            ELSE IF ~Has(data, "pitch") THEN DisplayNothing
            ELSE LET pitch == Get(data, "pitch", Deg(0))
                     threshold == Get(data, "threshold", Deg(DefaultThresholdDeg))
                     bar == display_posture_bar(pitch, threshold)
                 IN  [ raised |-> FALSE,
                       shown |-> { [pitch |-> pitch, threshold |-> threshold,
                                    status |-> bar.status, length |-> bar.length] } ]

\* `if 'pitch' in data: log_to_csv(LOG_FILE, data)`; for a JSON string the
\* row is never written (data.get raises inside log_to_csv, which catches it)
LogsRow(line) == line.kind = "object" /\ Has(line.obj, "pitch")

\* One turn of main's `while True` for a line the device sent
MonitorLine(line) ==
    IF line.kind \in {"badutf8", "blank", "text"}
    THEN [pc |-> "running", csv |-> monitor.csv, shown |-> monitor.shown]
    ELSE LET shown == display_data(line) IN
         IF shown.raised
         THEN [pc |-> "crashed", csv |-> monitor.csv, shown |-> monitor.shown]
         ELSE [ pc |-> "running",
                csv |-> IF LogsRow(line) THEN Append(monitor.csv, line.obj)
                        ELSE monitor.csv,
                shown |-> monitor.shown \cup shown.shown ]

\* ser = serial.Serial(SERIAL_PORT, BAUD_RATE, timeout=1); a failure is a
\* SerialException, which main answers with sys.exit(1)
MonitorConnect(ok) ==
    /\ monitor.pc = "start"
    /\ monitor' = [monitor EXCEPT !.pc = IF ok THEN "running" ELSE "exited"]
    /\ ev' = Event("monitor_connect", NoLine, IF ok THEN "opened" ELSE "open_failed")
    /\ UNCHANGED << serial_connection, current_serial_port, os_handles, in_buffer,
                    log_messages, smoothed_pitch, smoothed_roll,
                    smoothing_initialized, current_data, pc, clock, hist,
                    open_failed, sent, samples, switches, at_switch, drain, drawn >>

MonitorRead(Lines) ==
    /\ monitor.pc = "running"
    /\ sent < MaxLines
    /\ \E line \in Lines :
          /\ monitor' = MonitorLine(line)
          /\ ev' = Event("monitor_line", line, monitor'.pc)
    /\ sent' = sent + 1
    /\ UNCHANGED << serial_connection, current_serial_port, os_handles, in_buffer,
                    log_messages, smoothed_pitch, smoothed_roll,
                    smoothing_initialized, current_data, pc, clock, hist,
                    open_failed, samples, switches, at_switch, drain, drawn >>

\* ser.readline() raises SerialException: main prints the error and calls
\* sys.exit(1)
MonitorReadFails ==
    /\ monitor.pc = "running"
    /\ monitor' = [monitor EXCEPT !.pc = "exited"]
    /\ ev' = Event("monitor_line", NoLine, "read_failed")
    /\ UNCHANGED << serial_connection, current_serial_port, os_handles, in_buffer,
                    log_messages, smoothed_pitch, smoothed_roll,
                    smoothing_initialized, current_data, pc, clock, hist,
                    open_failed, sent, samples, switches, at_switch, drain, drawn >>

\* Ctrl+C: main closes the port and calls sys.exit(0)
MonitorInterrupt ==
    /\ monitor.pc = "running"
    /\ monitor' = [monitor EXCEPT !.pc = "exited"]
    /\ ev' = Event("monitor_interrupt", NoLine, "closed")
    /\ UNCHANGED << serial_connection, current_serial_port, os_handles, in_buffer,
                    log_messages, smoothed_pitch, smoothed_roll,
                    smoothing_initialized, current_data, pc, clock, hist,
                    open_failed, sent, samples, switches, at_switch, drain, drawn >>

Calibrated(fields) ==
    ObjectLine([key \in {"status"} \cup DOMAIN fields |->
                  IF key = "status" THEN "calibrated" ELSE fields[key]])

MonitorLines ==
    { BadUtf8Line, TextLine, ScalarLine, StringLine({"pitch"}),
      SampleOf(Deg(20), Deg(0)), SampleOf(Deg(5), Deg(1)),
      ObjectLine([pitch |-> Deg(20)]),
      ObjectLine([status |-> "calibrating", pitch |-> Deg(20), roll |-> Deg(0)]),
      ObjectLine([status |-> "calibrating", countdown |-> 3]),
      Calibrated([pitch_offset |-> Deg(1), roll_offset |-> Deg(0)]),
      Calibrated([pitch_offset |-> Deg(1)]),
      Calibrated(EmptyDict) }

MonitorConnects == \E ok \in BOOLEAN : MonitorConnect(ok)

NextMonitor ==
    MonitorConnects \/ MonitorRead(MonitorLines) \/ MonitorReadFails \/ MonitorInterrupt
SpecMonitor == Init /\ [][NextMonitor]_vars

BarSample(p) == SampleOf(Deg(p), Deg(0))

\* pitches on both sides of each band edge of the default threshold and of
\* a threshold the line itself carries
BarLines ==
    { BarSample(12), BarSample(13), BarSample(14), BarSample(15), BarSample(24),
      BarSample(25), SampleOf(PInf, Deg(0)), SampleOf(NaN, Deg(0)),
      ObjectLine([pitch |-> Deg(20), roll |-> Deg(0), threshold |-> Deg(20)]),
      ObjectLine([pitch |-> Deg(19), roll |-> Deg(0), threshold |-> Deg(20)]) }

NextBar ==
    MonitorConnects \/ MonitorRead(BarLines) \/ MonitorReadFails \/ MonitorInterrupt
SpecBar == Init /\ [][NextBar]_vars

----------------------------------------------------------------------------
\* Properties of the terminal monitor

\* the monitor's loop takes a line from the device
MonitorStep == monitor.pc = "running" /\ sent' = sent + 1

MonitorReadFailure ==
    monitor.pc = "running" /\ ev'.op = "monitor_line" /\ ev'.res = "read_failed"

\* a status line announcing the end of calibration without both offsets
LacksOffset(line) ==
    /\ line.kind = "object"
    /\ Has(line.obj, "status")
    /\ line.obj["status"] = "calibrated"
    /\ ~(Has(line.obj, "pitch_offset") /\ Has(line.obj, "roll_offset"))

\* C11: a 'calibrated' status line that lacks pitch_offset or roll_offset
\* is taken as a completed calibration, raises nothing and leaves the read
\* loop running, in the visualizer (whose tick goes on draining) and in the
\* terminal monitor (whose loop goes on reading).
C11_CalibratedWithoutOffsets ==
    [][ /\ (ReadStep /\ LacksOffset(NextLine)) =>
              /\ ev'.res = "status"
              /\ current_data'["calibration_status"] = "calibrated"
              /\ pc' = "drain"
        /\ (MonitorStep /\ LacksOffset(ev'.line)) => monitor'.pc = "running" ]_vars

\* C13: the CSV log grows by exactly one row when the monitor reads a
\* posture sample (pitch and roll, no status) and by none when it reads
\* anything else: a status line, a diagnostic line, or an object that has
\* pitch without being a sample.
C13_RowPerSample ==
    [][ MonitorStep =>
          Len(monitor'.csv) =
             Len(monitor.csv) + (IF IsSample(ev'.line) THEN 1 ELSE 0) ]_vars

\* C17: a failed read leaves the filter, the posture values and the
\* calibration state as they were, takes no line, and ends no process: the
\* visualizer's tick goes on to render and the monitor's loop keeps running.
C17_ReadFailureIsNoData ==
    [][ /\ (pc = "drain" /\ ev'.op = "read_error") =>
              /\ UNCHANGED << smoothed_pitch, smoothed_roll, smoothing_initialized,
                              current_data, in_buffer, hist >>
              /\ pc' = "render"
        /\ MonitorReadFailure => monitor'.pc = "running" ]_vars

Bands == << "GOOD", "OK", "SLOUCH", "BAD" >>

Rank(status) == CHOOSE i \in 1..4 : Bands[i] = status

\* the band of a finite pitch p for a threshold t, both in 1/Unit degree
BandOf(p, t) ==
    IF p < t - 2 * Unit THEN "GOOD"
    ELSE IF p < t THEN "OK"
    ELSE IF p < t + 10 * Unit THEN "SLOUCH"
    ELSE "BAD"

\* C19: every pitch the monitor displays gets exactly one of the four
\* statuses; for a threshold t a finite pitch is GOOD below t - 2, OK from
\* t - 2 up to t, SLOUCH from t up to t + 10 and BAD from t + 10 on, so a
\* pitch equal to t is SLOUCH, and of two pitches shown for the same
\* threshold the larger never has the lower band.
C19_Bands ==
    /\ \A e \in monitor.shown :
          /\ e.status \in {"GOOD", "OK", "SLOUCH", "BAD"}
          /\ (IsFinite(e.pitch) /\ IsFinite(e.threshold)) =>
                /\ e.status = BandOf(e.pitch.v, e.threshold.v)
                /\ (e.pitch = e.threshold => e.status = "SLOUCH")
          /\ e.pitch.k = "pinf" /\ IsFinite(e.threshold) => e.status = "BAD"
    /\ \A e1, e2 \in monitor.shown :
          e1.threshold = e2.threshold =>
             /\ e1.pitch = e2.pitch => e1.status = e2.status
             /\ (\/ IsFinite(e1.pitch) /\ IsFinite(e2.pitch) /\ e1.pitch.v <= e2.pitch.v
                 \/ IsFinite(e1.pitch) /\ e2.pitch.k = "pinf")
                => Rank(e1.status) <= Rank(e2.status)

\* the monitor has shown a pitch in each band, one of them exactly at the
\* threshold
C19_Witness ==
    /\ \E e \in monitor.shown : e.pitch = e.threshold /\ e.status = "SLOUCH"
    /\ \A b \in {"GOOD", "OK", "SLOUCH", "BAD"} :
          \E e \in monitor.shown : IsFinite(e.pitch) /\ e.status = b

----------------------------------------------------------------------------
\* The 3D drawing: rotation_matrix_x, rotation_matrix_y, rotate_cube and the
\* forward vector of update_plot.  Angles are whole multiples of 30 degrees,
\* whose sines and cosines lie in Z[sqrt 3]/2, so the matrix algebra is
\* exact: a number is [a, b], standing for a + b * sqrt(3), in a unit that
\* each level fixes (1/2 for a rotation matrix, 1/4 for a product of two,
\* 1/20 for a rotated cube vertex, 1/8 for the forward vector).

MaxAngleSteps == 6

Angles == { 30 * k : k \in (0 - MaxAngleSteps)..MaxAngleSteps }

Z(a, b) == [a |-> a, b |-> b]
ZAdd(x, y) == Z(x.a + y.a, x.b + y.b)
ZMul(x, y) == Z(x.a * y.a + 3 * x.b * y.b, x.a * y.b + x.b * y.a)
ZNeg(x) == Z(0 - x.a, 0 - x.b)

\* 2 * cos(k * 30 degrees), k = 0..11
CosTable ==
    << Z(2, 0), Z(0, 1), Z(1, 0), Z(0, 0), Z(-1, 0), Z(0, -1),
       Z(-2, 0), Z(0, -1), Z(-1, 0), Z(0, 0), Z(1, 0), Z(0, 1) >>

Cos(angle) == CosTable[((angle \div 30) % 12) + 1]
Sin(angle) == Cos(angle - 90)

\* Rotation about X (roll), entries in halves
rotation_matrix_x(angle) ==
    << << Z(2, 0), Z(0, 0), Z(0, 0) >>,
       << Z(0, 0), Cos(angle), ZNeg(Sin(angle)) >>,
       << Z(0, 0), Sin(angle), Cos(angle) >> >>

\* Rotation about Y (pitch), entries in halves
rotation_matrix_y(angle) ==
    << << Cos(angle), Z(0, 0), Sin(angle) >>,
       << Z(0, 0), Z(2, 0), Z(0, 0) >>,
       << ZNeg(Sin(angle)), Z(0, 0), Cos(angle) >> >>

\* numpy's A @ B and A @ v
MatMul(A, B) ==
    [i \in 1..3 |-> [j \in 1..3 |->
        ZAdd(ZAdd(ZMul(A[i][1], B[1][j]), ZMul(A[i][2], B[2][j])),
             ZMul(A[i][3], B[3][j]))]]

MatVec(A, v) ==
    [i \in 1..3 |->
        ZAdd(ZAdd(ZMul(A[i][1], v[1]), ZMul(A[i][2], v[2])), ZMul(A[i][3], v[3]))]

\* create_cube: the vertices in fifths, the six faces by vertex
Vertex(x, y, z) == << Z(x, 0), Z(y, 0), Z(z, 0) >>

CubeVertices ==
    << Vertex(-5, -5, -1), Vertex(5, -5, -1), Vertex(5, 5, -1), Vertex(-5, 5, -1),
       Vertex(-5, -5, 1), Vertex(5, -5, 1), Vertex(5, 5, 1), Vertex(-5, 5, 1) >>

FaceVertices ==
    << << 1, 2, 6, 5 >>, << 3, 4, 8, 7 >>, << 1, 4, 8, 5 >>,
       << 2, 3, 7, 6 >>, << 5, 6, 7, 8 >>, << 1, 2, 3, 4 >> >>

create_cube == [f \in 1..6 |-> [n \in 1..4 |-> CubeVertices[FaceVertices[f][n]]]]

\* A faulty rotate_cube: pitch applied first, roll after it
rotate_cube_roll_last(faces, pitch, roll) ==
    LET combined_rotation == MatMul(rotation_matrix_x(roll), rotation_matrix_y(pitch))
    IN  [f \in DOMAIN faces |->
            [n \in DOMAIN faces[f] |-> MatVec(combined_rotation, faces[f][n])]]

rotate_cube(faces, pitch, roll) ==
    LET rot_x == rotation_matrix_x(roll)
        rot_y == rotation_matrix_y(pitch)
        combined_rotation == MatMul(rot_y, rot_x)
    IN  [f \in DOMAIN faces |->
            [n \in DOMAIN faces[f] |-> MatVec(combined_rotation, faces[f][n])]]

\* np.array([0, 1.5, 0]), in halves
ForwardArrow == Vertex(0, 3, 0)

\* Line 558; numpy's @ associates to the left
forward_vector(pitch, roll) ==
    MatVec(MatMul(rotation_matrix_y(pitch), rotation_matrix_x(roll)), ForwardArrow)

\* Whole degrees of a posture value
Degrees(x) == x.v \div Unit

\* update_plot's drawing of the cube and the arrow for the posture values
\* it read from current_data
DrawFrame ==
    /\ pc = "idle"
    /\ LET pitch == Degrees(current_data["pitch"])
           roll == Degrees(current_data["roll"])
       IN  drawn' = << [ pitch |-> pitch, roll |-> roll,
                         faces |-> rotate_cube(create_cube, pitch, roll),
                         forward |-> forward_vector(pitch, roll) ] >>
    /\ ev' = Event("draw", NoLine, "none")
    /\ UNCHANGED << serial_connection, current_serial_port, os_handles, in_buffer,
                    log_messages, smoothed_pitch, smoothed_roll,
                    smoothing_initialized, current_data, pc, clock, hist,
                    open_failed, sent, samples, switches, at_switch, drain, monitor >>

\* The posture values start at any pair of angles; everything else as in Init
InitRotation ==
    /\ serial_connection = "None"
    /\ current_serial_port = "None"
    /\ os_handles = 0
    /\ in_buffer = << >>
    /\ log_messages = << >>
    /\ smoothed_pitch = Deg(0)
    /\ smoothed_roll = Deg(0)
    /\ smoothing_initialized = FALSE
    /\ \E pitch \in Angles, roll \in Angles :
          current_data =
             [pitch |-> Deg(pitch), roll |-> Deg(roll), pitch_raw |-> Deg(0),
              forward_slouch |-> FALSE, alert_level_name |-> "none",
              cumulative_slouch_s |-> 0, threshold |-> Deg(DefaultThresholdDeg),
              calibration_status |-> "None", calibration_countdown |-> << >>,
              calibration_complete_time |-> << >>]
    /\ pc = "idle"
    /\ clock = 1
    /\ ev = Event("init", NoLine, "none")
    /\ hist = << >>
    /\ open_failed = FALSE
    /\ sent = 0
    /\ samples = 0
    /\ switches = 0
    /\ at_switch = [initialized |-> FALSE, pitch |-> Deg(0), roll |-> Deg(0),
                    opened |-> FALSE]
    /\ drain = 0
    /\ drawn = << >>
    /\ monitor = [pc |-> "start", csv |-> << >>, shown |-> {}]

NextRotation == DrawFrame
SpecRotation == InitRotation /\ [][NextRotation]_vars

\* R_pitch(pitch) * R_roll(roll), in quarters
PitchAfterRoll(pitch, roll) == MatMul(rotation_matrix_y(pitch), rotation_matrix_x(roll))

\* every vertex of every drawn face is R applied to the cube's vertex
CubeRotatedBy(R) ==
    \A f \in 1..6, n \in 1..4 :
        drawn[1].faces[f][n] = MatVec(R, CubeVertices[FaceVertices[f][n]])

\* C12 as stated: the cube is drawn rotated by R_pitch(pitch) * R_roll(roll)
\* and the forward vector is that rotation applied to the unit vector
\* (0, 1, 0).
C12_ForwardIsRotatedUnitVector ==
    drawn # << >> =>
        LET R == PitchAfterRoll(drawn[1].pitch, drawn[1].roll) IN
        /\ CubeRotatedBy(R)
        /\ drawn[1].forward = MatVec(R, Vertex(0, 2, 0))

\* C12, amended: the cube is drawn rotated by R_pitch(pitch) * R_roll(roll),
\* roll first and pitch after it, and the forward vector is that same
\* rotation applied to the fixed vector (0, 1.5, 0); both are functions of
\* pitch and roll alone.
C12_PitchAfterRoll ==
    drawn # << >> =>
        LET R == PitchAfterRoll(drawn[1].pitch, drawn[1].roll) IN
        /\ CubeRotatedBy(R)
        /\ drawn[1].forward = MatVec(R, Vertex(0, 3, 0))

\* a frame drawn for a pitch and a roll whose rotations do not commute
C12_Witness ==
    /\ drawn # << >>
    /\ drawn[1].pitch = 30
    /\ drawn[1].roll = 30
    /\ MatMul(rotation_matrix_y(30), rotation_matrix_x(30)) #
          MatMul(rotation_matrix_x(30), rotation_matrix_y(30))

----------------------------------------------------------------------------
\* Properties of the tick's drain

\* C14: one call of the drain reads only what was already buffered when it
\* began: at no point of a tick has its loop taken more lines than the
\* buffer held at the start of the tick, so the loop ends after that many
\* lines even while the device keeps sending.
C14_DrainsOnlyBuffered == drain # TakenLate

----------------------------------------------------------------------------
\* Properties of the pitch threshold

ThresholdLines ==
    { SampleOf(Deg(20), Deg(0)),
      ObjectLine([pitch |-> Deg(20), roll |-> Deg(0), threshold |-> Deg(20)]),
      ObjectLine([status |-> "calibrating", threshold |-> Deg(30)]) }

NextThreshold == DeviceSend(ThresholdLines) \/ Tick \/ Switch
SpecThreshold == Init /\ [][NextThreshold]_vars

\* C15 as stated: the pitch threshold is the one the session started with,
\* 15.0, in every state: no sample, status line or port switch changes it.
C15_ThresholdFixed == Threshold = Deg(DefaultThresholdDeg)

\* C15, amended: the threshold changes only when an accepted posture sample
\* carries a threshold field, and then to the value of that field; every
\* other line, every tick and every port switch leaves it as it is.
C15_ThresholdIsTheDevices ==
    [][ current_data'["threshold"] =
           IF AcceptStep /\ Has(NextLine.obj, "threshold")
             THEN NextLine.obj["threshold"]
             ELSE current_data["threshold"] ]_vars

\* a sample has replaced the threshold, and a port switch, a status line
\* with a threshold of its own and a sample without one have left the new
\* value in place
C15_Witness ==
    /\ Threshold = Deg(20)
    /\ switches > 0
    /\ ev.op = "line" /\ ev.res = "sample"
    /\ ~Has(ev.line.obj, "threshold")

----------------------------------------------------------------------------
\* Properties of lines that are not posture samples

\* the posture values update_plot displays
PostureValues(cd) ==
    [key \in {"pitch", "roll", "pitch_raw", "forward_slouch", "alert_level_name",
              "cumulative_slouch_s", "threshold"} |-> cd[key]]

\* the filter and the displayed posture values are as they were
FilterUntouched ==
    /\ UNCHANGED << smoothed_pitch, smoothed_roll, smoothing_initialized, hist >>
    /\ PostureValues(current_data') = PostureValues(current_data)

\* C16: a non-empty line that is not a posture sample is kept in the
\* diagnostic log and never reaches the filter or the classifier: reading
\* it appends a message and leaves the smoothed pitch and roll, the
\* initialized flag and the displayed posture values as they were.
C16_NonSampleIsLoggedOnly ==
    [][ (ReadStep /\ NextLine.kind # "blank" /\ ~IsSample(NextLine)) =>
           /\ Len(log_messages') = Len(log_messages) + 1
           /\ FilterUntouched ]_vars

\* C18: a line holding bytes that are not valid UTF-8 is not discarded: it
\* is decoded with the bad bytes replaced and comes out as a frame, which
\* is a diagnostic in the log, a status or a sample, and the loop goes on
\* with the next line.
C18_InvalidBytesStillAFrame ==
    [][ (ReadStep /\ NextLine.kind = "badutf8") =>
           /\ ev'.res # "undecodable"
           /\ \/ log_messages' # log_messages
              \/ hist' # hist
              \/ current_data' # current_data
           /\ pc' = "drain" ]_vars

----------------------------------------------------------------------------
\* Properties of the log buffer

\* The device numbers its debug lines, {"debug": "n"} being the n-th line it
\* sends, and sends plain samples in between
DeviceCounts ==
    /\ serial_connection # "None"
    /\ Len(in_buffer) < MaxBuffered
    /\ sent < MaxLogLines
    /\ \E line \in { ObjectLine([debug |-> ToString(sent + 1)]), SampleOf(Deg(20), Deg(0)) } :
          /\ IsSample(line) => samples < MaxLogSamples
          /\ in_buffer' = Append(in_buffer, line)
          /\ samples' = IF IsSample(line) THEN samples + 1 ELSE samples
    /\ sent' = sent + 1
    /\ UNCHANGED << serial_connection, current_serial_port, os_handles,
                    log_messages, smoothed_pitch, smoothed_roll,
                    smoothing_initialized, current_data, pc, clock, ev, hist,
                    open_failed, switches, at_switch, drain, drawn, monitor >>

NextLog == DeviceCounts \/ Tick \/ (switches < MaxLogSwitches /\ Switch)
SpecLog == Init /\ [][NextLog]_vars

\* pitch and roll, and no status, debug or error key
PlainSample(line) ==
    IsSample(line) /\ ~Has(line.obj, "debug") /\ ~Has(line.obj, "error")

DebugLine(line) ==
    line.kind = "object" /\ Has(line.obj, "debug") /\ ~Has(line.obj, "status")

\* C20: the log never holds more than 15 messages; a message logged when
\* it is full takes the place of the oldest one, the others keeping their
\* order; and reading a plain posture sample (pitch and roll, no status,
\* debug or error key) adds no message.
C20_LogBounded ==
    [][ /\ Len(log_messages') <= MAX_LOG_MESSAGES
        /\ (ReadStep /\ DebugLine(NextLine)) =>
              LET kept == IF Len(log_messages) < MAX_LOG_MESSAGES
                            THEN log_messages ELSE Tail(log_messages)
              IN  /\ Len(log_messages') = Len(kept) + 1
                  /\ SubSeq(log_messages', 1, Len(kept)) = kept
                  /\ log_messages'[Len(log_messages')].tag = "DEBUG"
                  /\ log_messages'[Len(log_messages')].body = NextLine.obj["debug"]
        /\ (ReadStep /\ PlainSample(NextLine)) => log_messages' = log_messages ]_vars

\* seventeen debug lines were logged: the log is full and the two oldest
\* messages are gone
C20_Witness ==
    /\ Len(log_messages) = MAX_LOG_MESSAGES
    /\ log_messages[1].body = ToString(3)
    /\ log_messages[MAX_LOG_MESSAGES].body = ToString(MAX_LOG_MESSAGES + 2)
    /\ ev.op = "line"

----------------------------------------------------------------------------
\* Properties of the port switch

SwitchStep == switches' = switches + 1

\* C21: a port switch, whether or not the new port opens, leaves the
\* displayed posture state (pitch, roll, pitch_raw, forward_slouch, alert
\* level, cumulative slouch, threshold) and the calibration status exactly
\* as they were, and the smoothed values with them: it changes only the
\* connection, the port name, the log and the filter's initialized flag.
C21_SwitchKeepsPosture ==
    [][ SwitchStep =>
           /\ PostureValues(current_data') = PostureValues(current_data)
           /\ \A key \in {"calibration_status", "calibration_countdown",
                          "calibration_complete_time"} :
                 current_data'[key] = current_data[key]
           /\ UNCHANGED << smoothed_pitch, smoothed_roll, pc, clock >> ]_vars

\* a switch whose new port did not open, made while the display showed a
\* sample, a threshold the device had sent and a calibration in progress
C21_Witness ==
    /\ ev.op = "switch" /\ ev.res = "open_failed"
    /\ at_switch.initialized
    /\ current_data["pitch"] = Deg(20)
    /\ Threshold = Deg(20)
    /\ CalibrationStatus = "calibrating"
    /\ ~smoothing_initialized

----------------------------------------------------------------------------
\* Properties of the order in which samples reach the filter

OrderLines ==
    { TextLine, ScalarLine, SampleOf(Deg(0), Deg(0)), SampleOf(Deg(20), Deg(10)),
      SampleOf(NonNumber, Deg(0)), SampleOf(Deg(20), NonNumber) }

NextOrder == DeviceSend(OrderLines) \/ Tick
SpecOrder == Init /\ [][NextOrder]_vars

\* the sample just read is the newest entry of the filter's record, behind
\* all earlier ones, and the filter and the display hold its output
AppliedLast(line) ==
    /\ Len(hist') = Len(hist) + 1
    /\ SubSeq(hist', 1, Len(hist)) = hist
    /\ hist'[Len(hist')].raw_pitch = line.obj["pitch"]
    /\ hist'[Len(hist')].raw_roll = line.obj["roll"]
    /\ smoothing_initialized'
    /\ smoothed_pitch' = hist'[Len(hist')].out_pitch
    /\ smoothed_roll' = hist'[Len(hist')].out_roll
    /\ current_data'["pitch"] = smoothed_pitch'
    /\ current_data'["roll"] = smoothed_roll'

\* C22: every posture-sample line the transport returns is applied to the
\* filter exactly once and in arrival order, across ticks: the read loop
\* takes lines from the head of the buffer only, each sample line it takes
\* is applied as it is taken, whatever lines came before it, and no other
\* step touches the filter's record.
C22_EverySampleAppliedOnce ==
    [][ /\ AcceptStep => AppliedLast(NextLine)
        /\ (ReadStep /\ ~IsSample(NextLine)) =>
              UNCHANGED << hist, smoothed_pitch, smoothed_roll >>
        /\ ~ReadStep =>
              /\ UNCHANGED << hist, smoothed_pitch, smoothed_roll >>
              /\ Len(in_buffer') >= Len(in_buffer)
              /\ SubSeq(in_buffer', 1, Len(in_buffer)) = in_buffer ]_vars

====
